---- MODULE Spec2Model ----
(***************************************************************************)
(* Model of log_laplace/log_lhc.py: the LoggerLHC singleton facade, the    *)
(* two handlers it attaches to the root logger, the StreamToLogger shim    *)
(* it installs on sys.stdout / sys.stderr, and the log.* shortcut helper.  *)
(*                                                                         *)
(* Strings that the code inspects character by character (the text handed  *)
(* to StreamToLogger.write) are sequences of one-character strings.        *)
(***************************************************************************)
EXTENDS Integers, Sequences, FiniteSets, TLC

(***************************************************************************)
(* Bounds of the model.                                                    *)
(***************************************************************************)
MaxLen == 2      \* longest text written to an intercepted stream
MaxCalls == 2    \* LoggerLHC(...) constructor calls in one behaviour

(***************************************************************************)
(* Values of the logging module the code refers to.                        *)
(***************************************************************************)
NOTSET == 0
DEBUG == 10
INFO == 20
WARNING == 30
ERROR == 40
CRITICAL == 50
BASIC_FORMAT == "%(levelname)s:%(name)s:%(message)s"

None == 0        \* _logger_instance = None; objects are numbered from 1
Unset == "<unset>"   \* an attribute __init__ never assigned

RealStdout == "__stdout__"   \* sys.__stdout__, the process's real stdout
RealStderr == "__stderr__"   \* sys.__stderr__, the process's real stderr
Shim == "StreamToLogger"     \* an instance of the local class StreamToLogger

(***************************************************************************)
(* Input domains.                                                          *)
(***************************************************************************)
Chars == {"a", " ", "\n"}
AppNames == {"svc", "root"}
LogRoots == {"/tmp/x"}
LevelStrings == {"debug", "info", "warning", "error", "Warning",
                 "critical", "basic_format", "verbose"}
FsOutcomes == {"ok", "mkdir_fails", "open_fails"}
Streams == {"stdout", "stderr"}
Methods == {"debug", "info", "warning", "error"}
FacadeMsgs == {<<"x">>}
Today == "today"                    \* date.today().isoformat()
Cwd == "cwd"                        \* Path.cwd()

RECURSIVE SeqsUpTo(_)
SeqsUpTo(n) ==
    IF n = 0 THEN {<<>>}
    ELSE LET S == SeqsUpTo(n - 1)
         IN S \cup {Append(s, c) : s \in {t \in S : Len(t) = n - 1}, c \in Chars}

Texts == SeqsUpTo(MaxLen)

(***************************************************************************)
(* str.upper() on the level strings, and getattr(logging, NAME, default).  *)
(***************************************************************************)
Upper(s) ==
    CASE s = "debug" -> "DEBUG"
      [] s = "info" -> "INFO"
      [] s = "warning" -> "WARNING"
      [] s = "Warning" -> "WARNING"
      [] s = "error" -> "ERROR"
      [] s = "critical" -> "CRITICAL"
      [] s = "basic_format" -> "BASIC_FORMAT"
      [] s = "verbose" -> "VERBOSE"
      [] OTHER -> s

\* A Python value handed to setLevel: an int, or the str BASIC_FORMAT.
IntValue(n) == [type |-> "int", int |-> n, str |-> ""]
StrValue(s) == [type |-> "str", int |-> 0 - 1, str |-> s]

GetLoggingAttr(name, default) ==
    CASE name = "DEBUG" -> IntValue(DEBUG)
      [] name = "INFO" -> IntValue(INFO)
      [] name = "WARNING" -> IntValue(WARNING)
      [] name = "ERROR" -> IntValue(ERROR)
      [] name = "CRITICAL" -> IntValue(CRITICAL)
      [] name = "NOTSET" -> IntValue(NOTSET)
      [] name = "BASIC_FORMAT" -> StrValue(BASIC_FORMAT)
      [] OTHER -> IntValue(default)

\* Handler.setLevel(v) takes an int as it is; the only str the model can hand
\* it is BASIC_FORMAT, which names no level, so logging raises ValueError.
IsLevelNumber(v) == v.type = "int"

FileLevelValue(file_level) == GetLoggingAttr(Upper(file_level), DEBUG)
ConsoleLevelValue(console_level) == GetLoggingAttr(Upper(console_level), INFO)

LevelOfMethod(m) ==
    CASE m = "debug" -> DEBUG
      [] m = "info" -> INFO
      [] m = "warning" -> WARNING
      [] m = "error" -> ERROR

LevelName(l) ==
    CASE l = DEBUG -> "DEBUG"
      [] l = INFO -> "INFO"
      [] l = WARNING -> "WARNING"
      [] l = ERROR -> "ERROR"
      [] l = CRITICAL -> "CRITICAL"
      [] OTHER -> "NOTSET"

(***************************************************************************)
(* logging.getLogger(name): the empty name and the name "root" both give   *)
(* the root logger.                                                        *)
(***************************************************************************)
\* logging.getLogger() with the name left out: always the root logger.
GetLoggerRootAlways(name) == "root"

GetLogger(name) == IF name = "" \/ name = "root" THEN "root" ELSE name

LogFilePath(app_name, log_root) ==
    <<IF log_root = "" THEN Cwd ELSE log_root, "logs", Today, app_name>>

(***************************************************************************)
(* str.rstrip() with no argument: drops trailing whitespace.               *)
(***************************************************************************)
\* A strip that knows the newline only, as rstrip("\n") would.
IsSpaceNewlineOnly(c) == c = "\n"

IsSpace(c) == c \in {" ", "\n"}

RECURSIVE rstrip(_)
rstrip(s) ==
    IF s = <<>> THEN s
    ELSE IF IsSpace(s[Len(s)]) THEN rstrip(SubSeq(s, 1, Len(s) - 1))
    ELSE s

(***************************************************************************)
(* State.                                                                  *)
(*   instance    the module global _logger_instance (None or an object id) *)
(*   objs        the LoggerLHC objects constructed so far, by id           *)
(*   rootLevel   the level of the root logger (logging's default WARNING)  *)
(*   handlers    the handlers attached to the root logger, in order        *)
(*   sysStdout, sysStderr   the current values of sys.stdout, sys.stderr   *)
(*   installs    how often sys.stdout / sys.stderr have been assigned      *)
(*   out         what the operation that has just run wrote: the chunks    *)
(*               written to the real stdout and stderr and the records     *)
(*               written by file handlers (terminal and file are           *)
(*               append-only and outside the program)                      *)
(*   last        the operation that has just run, its arguments and the    *)
(*               error it raised; "idle" once the caller has moved on      *)
(*   pc, self, args   position, object and arguments of each thread that   *)
(*               runs LoggerLHC.__init__ step by step                      *)
(***************************************************************************)
VARIABLES instance, objs, rootLevel, handlers, sysStdout, sysStderr,
          installs, out, last, pc, self, args

vars == <<instance, objs, rootLevel, handlers, sysStdout, sysStderr,
          installs, out, last, pc, self, args>>

progVars == <<instance, objs, rootLevel, handlers, sysStdout, sysStderr, installs>>
threadVars == <<pc, self, args>>

Threads == {1, 2}
NoArgs == [app_name |-> Unset, log_root |-> Unset, file_level |-> Unset,
           console_level |-> Unset, fs |-> Unset]

\* records counts the LogRecords the operation's logger calls created.
NoOutput ==
    [stdout |-> <<>>, stderr |-> <<>>, file |-> <<>>, reentered |-> FALSE, records |-> 0]

Op(op, obj, method, stream, text, err) ==
    [op |-> op, obj |-> obj, method |-> method, stream |-> stream,
     text |-> text, err |-> err, file_level |-> "", console_level |-> ""]

InitOp(obj, file_level, console_level, err) ==
    [op |-> "init", obj |-> obj, method |-> "", stream |-> "", text |-> <<>>,
     err |-> err, file_level |-> file_level, console_level |-> console_level]

Idle == Op("idle", 0, "", "", <<>>, "none")

\* A LoggerLHC object on which __init__ assigned nothing.  status tells what
\* became of the constructor call: "building" while __init__ runs, "active"
\* once it has published the object, "ignored" when it returned at the
\* guard, or the name of the exception that ended it (the caller then holds
\* no reference to the object).
BareObject(status) ==
    [status |-> status, app_name |-> Unset, log_file |-> <<>>, logger |-> Unset]

\* The attributes __init__ assigns (log_root and date_folder are the
\* prefixes of log_file; root_logger is the one root logger).
InitObject(status, app_name, log_root) ==
    [status |-> status, app_name |-> app_name,
     log_file |-> LogFilePath(app_name, log_root),
     logger |-> GetLogger(app_name)]

(***************************************************************************)
(* Emitting a record: Logger.info/debug/warning/error -> isEnabledFor ->   *)
(* callHandlers over the root logger's handlers (the named logger has no   *)
(* handler and no level of its own, and propagates to the root).           *)
(***************************************************************************)
Chunk(h, levelname, name, message) ==
    [h |-> h, levelname |-> levelname, name |-> name, text |-> message \o <<"\n">>]

\* What handler number i does with a record it accepts.
HandlerEmit(h, i, rec, o) ==
    IF h.kind = "file"
    THEN [o EXCEPT !.file = Append(@, [h |-> i, path |-> h.target,
                                       levelname |-> LevelName(rec.level),
                                       name |-> rec.name, text |-> rec.msg])]
    ELSE IF h.target = RealStdout
    THEN [o EXCEPT !.stdout = Append(@, Chunk(i, LevelName(rec.level), rec.name, rec.msg))]
    ELSE IF h.target = RealStderr
    THEN [o EXCEPT !.stderr = Append(@, Chunk(i, LevelName(rec.level), rec.name, rec.msg))]
    ELSE [o EXCEPT !.reentered = TRUE]     \* the target is a StreamToLogger

\* A filter that drops the record whose level equals the threshold.
HandlerAcceptsStrict(h, rec) == rec.level > h.level

HandlerAccepts(h, rec) == rec.level >= h.level

RECURSIVE CallHandlers(_, _, _, _)
CallHandlers(hs, i, rec, o) ==
    IF i > Len(hs) THEN o
    ELSE CallHandlers(hs, i + 1, rec,
                      IF HandlerAccepts(hs[i], rec) THEN HandlerEmit(hs[i], i, rec, o) ELSE o)

\* Every logger of the model has level NOTSET but the root, so the effective
\* level is the root's.
IsEnabledFor(rl, level) == level >= rl

LoggerLog(hs, rl, name, level, msg, o) ==
    IF IsEnabledFor(rl, level)
    THEN CallHandlers(hs, 1, [level |-> level, name |-> name, msg |-> msg],
                      [o EXCEPT !.records = @ + 1])
    ELSE o

(***************************************************************************)
(* LoggerLHC._setup_handlers.                                              *)
(***************************************************************************)
FileHandler(log_file, level, owner) ==
    [kind |-> "file", level |-> level, target |-> log_file, owner |-> owner]

StreamHandler(stream, level, owner) ==
    [kind |-> "console", level |-> level, target |-> stream, owner |-> owner]

\* Lines 77-81: open the file, set the level, attach to the root logger.
AddFileHandler(hs, log_file, file_level, fs, owner) ==
    IF fs = "open_fails" THEN [handlers |-> hs, err |-> "OSError"]
    ELSE IF ~IsLevelNumber(FileLevelValue(file_level))
    THEN [handlers |-> hs, err |-> "ValueError"]
    ELSE [handlers |-> Append(hs, FileHandler(log_file, FileLevelValue(file_level).int, owner)),
          err |-> "none"]

\* Lines 84-88: bind to the current sys.stdout, set the level, attach.
AddConsoleHandler(hs, stdoutNow, console_level, owner) ==
    IF ~IsLevelNumber(ConsoleLevelValue(console_level))
    THEN [handlers |-> hs, err |-> "ValueError"]
    ELSE [handlers |-> Append(hs, StreamHandler(stdoutNow, ConsoleLevelValue(console_level).int, owner)),
          err |-> "none"]

\* The two blocks of _setup_handlers in the other order.
SetupHandlersConsoleFirst(hs, stdoutNow, log_file, file_level, console_level, fs, owner) ==
    LET c == AddConsoleHandler(hs, stdoutNow, console_level, owner)
    IN IF c.err # "none" THEN c
       ELSE AddFileHandler(c.handlers, log_file, file_level, fs, owner)

SetupHandlers(hs, stdoutNow, log_file, file_level, console_level, fs, owner) ==
    LET f == AddFileHandler(hs, log_file, file_level, fs, owner)
    IN IF f.err # "none" THEN f
       ELSE AddConsoleHandler(f.handlers, stdoutNow, console_level, owner)

(***************************************************************************)
(* StreamToLogger: both shims are built with stream=None, so both keep     *)
(* sys.__stdout__ as their pass-through channel.                           *)
(***************************************************************************)
ShimStream(s) == RealStdout

Echo(channel, message, o) ==
    IF channel = RealStdout
    THEN [o EXCEPT !.stdout = Append(@, Chunk(0, "", "", message))]
    ELSE [o EXCEPT !.stderr = Append(@, Chunk(0, "", "", message))]

IsEmptyMessage(message) == message = <<>>

\* A write that leaves the terminal to the console handler.
ShimWriteNoEcho(hs, rl, s, text) ==
    LET message == rstrip(text)
    IN IF IsEmptyMessage(message) THEN NoOutput
       ELSE LoggerLog(hs, rl, "root", INFO, message, NoOutput)

\* StreamToLogger.write(text) on the shim installed for stream s.
ShimWrite(hs, rl, s, text) ==
    LET message == rstrip(text)
    IN IF IsEmptyMessage(message) THEN NoOutput
       ELSE LoggerLog(hs, rl, "root", INFO, message, Echo(ShimStream(s), message, NoOutput))

(***************************************************************************)
(* The guard of __init__ and of _log_func.                                 *)
(***************************************************************************)
\* A guard that never sees the singleton.
AlreadyInitializedNever(inst) == FALSE

AlreadyInitialized(inst) == inst # None

Init ==
    /\ instance = None
    /\ objs = <<>>
    /\ rootLevel = WARNING
    /\ handlers = <<>>
    /\ sysStdout = RealStdout
    /\ sysStderr = RealStderr
    /\ installs = [stdout |-> 0, stderr |-> 0]
    /\ out = NoOutput
    /\ last = Idle
    /\ pc = [t \in Threads |-> "idle"]
    /\ self = [t \in Threads |-> 0]
    /\ args = [t \in Threads |-> NoArgs]

(***************************************************************************)
(* LoggerLHC(app_name, log_root, file_level, console_level), run from      *)
(* start to end by one caller.  fs is what the filesystem does.            *)
(***************************************************************************)
Construct(app_name, log_root, file_level, console_level, fs) ==
    /\ last = Idle
    /\ Len(objs) < MaxCalls
    /\ LET id == Len(objs) + 1
           r == SetupHandlers(handlers, sysStdout, LogFilePath(app_name, log_root),
                              file_level, console_level, fs, id)
       IN IF AlreadyInitialized(instance)
          THEN /\ objs' = Append(objs, BareObject("ignored"))
               /\ last' = InitOp(id, file_level, console_level, "none")
               /\ UNCHANGED <<instance, rootLevel, handlers, sysStdout, sysStderr, installs>>
          ELSE IF fs = "mkdir_fails"
          THEN /\ objs' = Append(objs, BareObject("OSError"))
               /\ last' = InitOp(id, file_level, console_level, "OSError")
               /\ UNCHANGED <<instance, rootLevel, handlers, sysStdout, sysStderr, installs>>
          ELSE IF r.err # "none"
          THEN /\ objs' = Append(objs, BareObject(r.err))
               /\ rootLevel' = DEBUG
               /\ handlers' = r.handlers
               /\ last' = InitOp(id, file_level, console_level, r.err)
               /\ UNCHANGED <<instance, sysStdout, sysStderr, installs>>
          ELSE /\ objs' = Append(objs, InitObject("active", app_name, log_root))
               /\ rootLevel' = DEBUG
               /\ handlers' = r.handlers
               /\ sysStdout' = Shim
               /\ sysStderr' = Shim
               /\ installs' = [stdout |-> installs.stdout + 1, stderr |-> installs.stderr + 1]
               /\ instance' = id
               /\ last' = InitOp(id, file_level, console_level, "none")
    /\ out' = NoOutput
    /\ UNCHANGED threadVars

(***************************************************************************)
(* obj.info / obj.debug / obj.warning / obj.error on an object returned by *)
(* a constructor call.                                                     *)
(***************************************************************************)
HasLogger(o) == o.logger # Unset

MethodResult(o, hs, rl, method, msg) ==
    IF ~HasLogger(o) THEN [err |-> "AttributeError", out |-> NoOutput]
    ELSE [err |-> "none",
          out |-> LoggerLog(hs, rl, o.logger, LevelOfMethod(method), msg, NoOutput)]

Facade(i, method, msg) ==
    /\ last = Idle
    /\ i \in DOMAIN objs
    /\ objs[i].status \in {"active", "ignored"}
    /\ LET r == MethodResult(objs[i], handlers, rootLevel, method, msg)
       IN /\ out' = r.out
          /\ last' = Op("facade", i, method, "", msg, r.err)
    /\ UNCHANGED progVars
    /\ UNCHANGED threadVars

(***************************************************************************)
(* log.info / log.debug / log.warning / log.error -> _log_func.            *)
(***************************************************************************)
\* The if/elif chain of _log_func on level.lower().
\* _log_func without its warning branch: warnings fall through to info.
LogFuncMethodNoWarning(level) ==
    IF level = "debug" THEN "debug"
    ELSE IF level = "error" THEN "error"
    ELSE "info"

LogFuncMethod(level) ==
    IF level = "debug" THEN "debug"
    ELSE IF level = "warning" THEN "warning"
    ELSE IF level = "error" THEN "error"
    ELSE "info"

\* _log_func without its None check: the method lookup on None fails.
LogFuncNoGuard(inst, os, hs, rl, level, msg) ==
    IF inst = None THEN [err |-> "AttributeError", out |-> NoOutput]
    ELSE MethodResult(os[inst], hs, rl, LogFuncMethod(level), msg)

\* _log_func(msg, level): the error it raises and what it writes.
LogFunc(inst, os, hs, rl, level, msg) ==
    IF ~AlreadyInitialized(inst) THEN [err |-> "RuntimeError", out |-> NoOutput]
    ELSE MethodResult(os[inst], hs, rl, LogFuncMethod(level), msg)

Shortcut(method, msg) ==
    /\ last = Idle
    /\ LET r == LogFunc(instance, objs, handlers, rootLevel, method, msg)
       IN /\ out' = r.out
          /\ last' = Op("shortcut", instance, method, "", msg, r.err)
    /\ UNCHANGED progVars
    /\ UNCHANGED threadVars

(***************************************************************************)
(* sys.stdout.write(text) / sys.stderr.write(text) while the stream is a   *)
(* StreamToLogger.                                                         *)
(***************************************************************************)
StreamValue(s) == IF s = "stdout" THEN sysStdout ELSE sysStderr

Write(s, text) ==
    /\ last = Idle
    /\ StreamValue(s) = Shim
    /\ out' = ShimWrite(handlers, rootLevel, s, text)
    /\ last' = Op("write", 0, "", s, text, "none")
    /\ UNCHANGED progVars
    /\ UNCHANGED threadVars

\* The operation has returned and what it wrote has left the process.
Return ==
    /\ last # Idle
    /\ last' = Idle
    /\ out' = NoOutput
    /\ UNCHANGED progVars
    /\ UNCHANGED threadVars

Next ==
    \/ \E a \in AppNames, r \in LogRoots, fl \in LevelStrings, cl \in LevelStrings,
          fs \in FsOutcomes : Construct(a, r, fl, cl, fs)
    \/ \E i \in 1..MaxCalls, m \in Methods, msg \in FacadeMsgs : Facade(i, m, msg)
    \/ \E m \in Methods, msg \in FacadeMsgs : Shortcut(m, msg)
    \/ \E s \in Streams, text \in Texts : Write(s, text)
    \/ Return

Spec == Init /\ [][Next]_vars

(***************************************************************************)
(* Two threads, each running LoggerLHC(app_name) with the default levels.  *)
(* Python may switch threads between any two statements of __init__, so    *)
(* each thread runs it in the steps below; every step is one statement (or *)
(* a run of statements that touch nothing another thread reads).           *)
(***************************************************************************)
DefaultFileLevel == "debug"
DefaultConsoleLevel == "info"

SetStatus(os, i, status) == [os EXCEPT ![i].status = status]

\* The call: the object exists, __init__ has not run its first statement.
TCall(t, app_name, log_root) ==
    /\ last = Idle
    /\ pc[t] = "idle"
    /\ Len(objs) < MaxCalls
    /\ objs' = Append(objs, BareObject("building"))
    /\ self' = [self EXCEPT ![t] = Len(objs) + 1]
    /\ args' = [args EXCEPT ![t] = [app_name |-> app_name, log_root |-> log_root,
                                    file_level |-> DefaultFileLevel,
                                    console_level |-> DefaultConsoleLevel,
                                    fs |-> "ok"]]
    /\ pc' = [pc EXCEPT ![t] = "guard"]
    /\ UNCHANGED <<instance, rootLevel, handlers, sysStdout, sysStderr, installs, out, last>>

\* Lines 47-48: the singleton guard.
TGuard(t) ==
    /\ last = Idle
    /\ pc[t] = "guard"
    /\ IF AlreadyInitialized(instance)
       THEN /\ objs' = SetStatus(objs, self[t], "ignored")
            /\ pc' = [pc EXCEPT ![t] = "done"]
       ELSE /\ pc' = [pc EXCEPT ![t] = "attrs"]
            /\ UNCHANGED objs
    /\ UNCHANGED <<instance, rootLevel, handlers, sysStdout, sysStderr, installs,
                   out, last, self, args>>

\* __init__ with the assignment of line 70 moved up, ahead of the handlers
\* and the stream capture.
TAttrsPublishing(t) ==
    /\ last = Idle
    /\ pc[t] = "attrs"
    /\ objs' = [objs EXCEPT ![self[t]] =
                   InitObject("building", args[t].app_name, args[t].log_root)]
    /\ rootLevel' = DEBUG
    /\ instance' = self[t]
    /\ pc' = [pc EXCEPT ![t] = "file"]
    /\ UNCHANGED <<handlers, sysStdout, sysStderr, installs, out, last, self, args>>

\* Lines 50-62: the attributes, the day folder, the root logger's level.
TAttrs(t) ==
    /\ last = Idle
    /\ pc[t] = "attrs"
    /\ objs' = [objs EXCEPT ![self[t]] =
                   InitObject("building", args[t].app_name, args[t].log_root)]
    /\ rootLevel' = DEBUG
    /\ pc' = [pc EXCEPT ![t] = "file"]
    /\ UNCHANGED <<instance, handlers, sysStdout, sysStderr, installs, out, last, self, args>>

\* Lines 77-81.
TFileHandler(t) ==
    /\ last = Idle
    /\ pc[t] = "file"
    /\ LET r == AddFileHandler(handlers, objs[self[t]].log_file, args[t].file_level,
                               args[t].fs, self[t])
       IN /\ handlers' = r.handlers
          /\ pc' = [pc EXCEPT ![t] = IF r.err = "none" THEN "console" ELSE "done"]
          /\ objs' = IF r.err = "none" THEN objs ELSE SetStatus(objs, self[t], r.err)
    /\ UNCHANGED <<instance, rootLevel, sysStdout, sysStderr, installs, out, last, self, args>>

\* Lines 84-88: the handler is bound to whatever sys.stdout is now.
TConsoleHandler(t) ==
    /\ last = Idle
    /\ pc[t] = "console"
    /\ LET r == AddConsoleHandler(handlers, sysStdout, args[t].console_level, self[t])
       IN /\ handlers' = r.handlers
          /\ pc' = [pc EXCEPT ![t] = IF r.err = "none" THEN "stdout" ELSE "done"]
          /\ objs' = IF r.err = "none" THEN objs ELSE SetStatus(objs, self[t], r.err)
    /\ UNCHANGED <<instance, rootLevel, sysStdout, sysStderr, installs, out, last, self, args>>

\* Line 126.
TStdout(t) ==
    /\ last = Idle
    /\ pc[t] = "stdout"
    /\ sysStdout' = Shim
    /\ installs' = [installs EXCEPT !.stdout = @ + 1]
    /\ pc' = [pc EXCEPT ![t] = "stderr"]
    /\ UNCHANGED <<instance, objs, rootLevel, handlers, sysStderr, out, last, self, args>>

\* Line 127.
TStderr(t) ==
    /\ last = Idle
    /\ pc[t] = "stderr"
    /\ sysStderr' = Shim
    /\ installs' = [installs EXCEPT !.stderr = @ + 1]
    /\ pc' = [pc EXCEPT ![t] = "publish"]
    /\ UNCHANGED <<instance, objs, rootLevel, handlers, sysStdout, out, last, self, args>>

\* Line 70.
TPublish(t) ==
    /\ last = Idle
    /\ pc[t] = "publish"
    /\ instance' = self[t]
    /\ objs' = SetStatus(objs, self[t], "active")
    /\ pc' = [pc EXCEPT ![t] = "done"]
    /\ UNCHANGED <<rootLevel, handlers, sysStdout, sysStderr, installs, out, last, self, args>>

RaceNext ==
    \/ \E t \in Threads, a \in AppNames, r \in LogRoots : TCall(t, a, r)
    \/ \E t \in Threads : TGuard(t)
    \/ \E t \in Threads : TAttrs(t)
    \/ \E t \in Threads : TFileHandler(t)
    \/ \E t \in Threads : TConsoleHandler(t)
    \/ \E t \in Threads : TStdout(t)
    \/ \E t \in Threads : TStderr(t)
    \/ \E t \in Threads : TPublish(t)
    \/ \E i \in 1..MaxCalls, m \in Methods, msg \in FacadeMsgs : Facade(i, m, msg)
    \/ \E m \in Methods, msg \in FacadeMsgs : Shortcut(m, msg)
    \/ \E s \in Streams, text \in Texts : Write(s, text)
    \/ Return

RaceSpec == Init /\ [][RaceNext]_vars

(***************************************************************************)
(* Properties.  The definitions below state what is checked; they read the *)
(* state and use none of the operators that compute it, except where a     *)
(* property compares the program with a run of itself.                     *)
(***************************************************************************)
Whitespace == {" ", "\n"}
NonBlank(text) == \E i \in DOMAIN text : text[i] \notin Whitespace
Blank(text) == \A i \in DOMAIN text : text[i] \in Whitespace

\* The text up to its last character that is no whitespace.
Trimmed(text) ==
    LET keep == {i \in DOMAIN text : text[i] \notin Whitespace}
    IN IF keep = {} THEN <<>>
       ELSE SubSeq(text, 1, CHOOSE i \in keep : \A j \in keep : j <= i)

FourLevels == {DEBUG, INFO, WARNING, ERROR}
CanonicalNames == {"debug", "info", "warning", "error"}

\* The severity order of the specification: DEBUG < INFO < WARNING < ERROR.
Severity(name) ==
    CASE name = "debug" -> DEBUG
      [] name = "info" -> INFO
      [] name = "warning" -> WARNING
      [] name = "error" -> ERROR

SeverityName(name) ==
    CASE name = "debug" -> "DEBUG"
      [] name = "info" -> "INFO"
      [] name = "warning" -> "WARNING"
      [] name = "error" -> "ERROR"

\* The sinks the published instance's initialization attached.
OwnSinks(kind) ==
    {i \in DOMAIN handlers : handlers[i].owner = instance /\ handlers[i].kind = kind}

\* What sink number i wrote during the operation that has just run.
FileRecordsBy(i) == {k \in DOMAIN out.file : out.file[k].h = i}
ConsoleLinesBy(i) == {k \in DOMAIN out.stdout : out.stdout[k].h = i}
WrittenBy(i) == IF handlers[i].kind = "file" THEN FileRecordsBy(i) ELSE ConsoleLinesBy(i)

\* The chunks on the terminal, on either real channel.
Terminal == out.stdout \o out.stderr
EchoLines == {k \in DOMAIN Terminal : Terminal[k].h = 0}

(***************************************************************************)
(* C1: after a successful initialization with console and file thresholds  *)
(* both <= INFO, one write of a non-blank text to the intercepted stdout    *)
(* puts exactly one line on the terminal and exactly one INFO record in    *)
(* the file sink; never two terminal lines.                                *)
(* The code violates it: the console sink, attached to the root logger,    *)
(* prints the record after the shim has echoed the text.                   *)
(***************************************************************************)
C1_OneTerminalLine ==
    (/\ last.op = "write"
     /\ last.stream = "stdout"
     /\ NonBlank(last.text)
     /\ instance # None
     /\ \A i \in OwnSinks("file") \cup OwnSinks("console") : handlers[i].level <= INFO)
    => /\ Len(Terminal) = 1
       /\ \A i \in OwnSinks("file") : Cardinality(FileRecordsBy(i)) = 1

(***************************************************************************)
(* C2: a constructor call made while the singleton exists changes nothing: *)
(* the singleton, the attributes of every existing object, the root        *)
(* logger's level, the attached sinks with their thresholds and the two    *)
(* streams stay as the first call left them, whatever the arguments.       *)
(***************************************************************************)
C2_LaterCallsChangeNothing ==
    [][(last'.op = "init" /\ instance # None)
       => /\ last'.err = "none"
          /\ instance' = instance
          /\ SubSeq(objs', 1, Len(objs)) = objs
          /\ rootLevel' = rootLevel
          /\ handlers' = handlers
          /\ sysStdout' = sysStdout /\ sysStderr' = sysStderr
          /\ installs' = installs
          /\ out' = NoOutput]_vars

\* A second call with another file level than the first call's DEBUG.
C2_Witness ==
    /\ last.op = "init" /\ last.obj = 2 /\ last.file_level = "error"
    /\ instance = 1
    /\ objs[2].status = "ignored"
    /\ Len(handlers) = 2 /\ handlers[1].level = DEBUG

(***************************************************************************)
(* C3: once the singleton exists, info/debug/warning/error succeed on      *)
(* every LoggerLHC object, the object of a later, ignored constructor call *)
(* included, and that object has the existing instance's state.            *)
(* The code violates it: the ignored call returns before it assigns any    *)
(* attribute, so the object has no logger.                                 *)
(***************************************************************************)
C3_EveryObjectLogs ==
    (last.op = "facade" /\ instance # None)
    => /\ last.err = "none"
       /\ objs[last.obj].app_name = objs[instance].app_name
       /\ objs[last.obj].logger = objs[instance].logger

(***************************************************************************)
(* C4: with file and console thresholds among DEBUG, INFO, WARNING, ERROR, *)
(* a successful initialization gives its file sink and its console sink    *)
(* the thresholds its level strings name, and a record of severity s sent  *)
(* through info/debug/warning/error is written once by each of these sinks *)
(* whose threshold is <= s and not at all by the others.                   *)
(***************************************************************************)
C4_ThresholdRouting ==
    /\ (/\ last.op = "init" /\ last.err = "none" /\ instance = last.obj
        /\ last.file_level \in CanonicalNames
        /\ last.console_level \in CanonicalNames)
       => /\ Cardinality(OwnSinks("file")) = 1
          /\ Cardinality(OwnSinks("console")) = 1
          /\ \A i \in OwnSinks("file") : handlers[i].level = Severity(last.file_level)
          /\ \A i \in OwnSinks("console") : handlers[i].level = Severity(last.console_level)
    /\ (last.op = "facade" /\ last.err = "none" /\ instance # None)
       => \A i \in OwnSinks("file") \cup OwnSinks("console") :
             handlers[i].level \in FourLevels
             => IF Severity(last.method) >= handlers[i].level
                THEN /\ Cardinality(WrittenBy(i)) = 1
                     /\ \A k \in FileRecordsBy(i) :
                           /\ out.file[k].text = last.text
                           /\ out.file[k].levelname = SeverityName(last.method)
                     /\ \A k \in ConsoleLinesBy(i) :
                           /\ out.stdout[k].text = last.text \o <<"\n">>
                           /\ out.stdout[k].levelname = SeverityName(last.method)
                ELSE WrittenBy(i) = {}

\* file threshold WARNING, console threshold DEBUG, debug("x"): console only.
C4_Witness ==
    /\ last.op = "facade" /\ last.method = "debug" /\ last.err = "none"
    /\ \E f \in OwnSinks("file"), c \in OwnSinks("console") :
          /\ handlers[f].level = WARNING /\ handlers[c].level = DEBUG
          /\ FileRecordsBy(f) = {} /\ Cardinality(ConsoleLinesBy(c)) = 1

(***************************************************************************)
(* C5: a shortcut call (log.info/debug/warning/error) made while no        *)
(* singleton exists raises the initialization-order error, writes nothing  *)
(* to any sink or to the terminal, and changes nothing: the state is still *)
(* uninitialized, no sink has been attached and no stream redirected.      *)
(***************************************************************************)
C5_ShortcutBeforeInit ==
    [][(last'.op = "shortcut" /\ instance = None)
       => /\ last'.err = "RuntimeError"
          /\ out' = NoOutput
          /\ instance' = None
          /\ handlers' = handlers
          /\ sysStdout' = RealStdout /\ sysStderr' = RealStderr
          /\ objs' = objs /\ rootLevel' = rootLevel /\ installs' = installs]_vars

C5_Witness ==
    /\ last.op = "shortcut" /\ last.err = "RuntimeError"
    /\ instance = None /\ handlers = <<>>
    /\ sysStdout = RealStdout /\ sysStderr = RealStderr

(***************************************************************************)
(* C6: however two threads' first constructor calls interleave, one of     *)
(* them alone initializes: there is never more than one file sink and one  *)
(* console sink, sys.stdout and sys.stderr are each assigned at most once, *)
(* and at most one object is ever published as the singleton.              *)
(* The code violates it: the guard of line 47 and the publication of line  *)
(* 70 are separate statements with no lock around them.                    *)
(***************************************************************************)
C6_RaceFreeInit ==
    /\ Cardinality({i \in DOMAIN handlers : handlers[i].kind = "file"}) <= 1
    /\ Cardinality({i \in DOMAIN handlers : handlers[i].kind = "console"}) <= 1
    /\ installs.stdout <= 1
    /\ installs.stderr <= 1
    /\ Cardinality({i \in DOMAIN objs : objs[i].status = "active"}) <= 1

(***************************************************************************)
(* C7: a constructor call that fails because the day folder or the log     *)
(* file cannot be created raises the error and leaves no partial state: no *)
(* singleton is published, no sink is attached, no stream is redirected;   *)
(* and the next successful call initializes as a first call does.          *)
(***************************************************************************)
C7_FailedOpenLeavesNothing ==
    [][/\ (last'.op = "init" /\ last'.err = "OSError")
          => /\ instance = None /\ instance' = None
             /\ handlers' = handlers
             /\ sysStdout' = sysStdout /\ sysStderr' = sysStderr
             /\ installs' = installs
             /\ objs'[last'.obj].status = "OSError"
       /\ (last'.op = "init" /\ last'.err = "none" /\ instance = None)
          => /\ instance' = last'.obj
             /\ Len(handlers') = Len(handlers) + 2
             /\ SubSeq(handlers', 1, Len(handlers)) = handlers
             /\ {handlers'[i].kind : i \in Len(handlers) + 1 .. Len(handlers) + 2}
                   = {"file", "console"}
             /\ sysStdout' = Shim /\ sysStderr' = Shim]_vars

\* The first call failed on the filesystem, the second one initialized.
C7_Witness ==
    /\ Len(objs) = 2 /\ objs[1].status = "OSError"
    /\ last.op = "init" /\ last.obj = 2
    /\ instance = 2
    /\ Len(handlers) = 2 /\ \A i \in DOMAIN handlers : handlers[i].owner = 2
    /\ installs = [stdout |-> 1, stderr |-> 1]

(***************************************************************************)
(* C8: whatever the file and console thresholds, a non-blank write to an   *)
(* intercepted stream is echoed on the terminal: the first chunk written   *)
(* there is the text without its trailing whitespace plus one newline, and *)
(* it is the only echo; the record is written by the instance's file sink  *)
(* iff INFO >= that sink's threshold.                                      *)
(***************************************************************************)
C8_EchoAlwaysFileGated ==
    (last.op = "write" /\ NonBlank(last.text))
    => /\ last.err = "none"
       /\ Cardinality(EchoLines) = 1
       /\ Terminal[1].h = 0
       /\ Terminal[1].text = Trimmed(last.text) \o <<"\n">>
       /\ \A i \in OwnSinks("file") :
             IF INFO >= handlers[i].level
             THEN /\ Cardinality(FileRecordsBy(i)) = 1
                  /\ \A k \in FileRecordsBy(i) :
                        /\ out.file[k].text = Trimmed(last.text)
                        /\ out.file[k].levelname = "INFO"
             ELSE FileRecordsBy(i) = {}

\* Both thresholds above INFO: the echo alone, nothing in the file.
C8_Witness ==
    /\ last.op = "write" /\ last.text = <<"a", " ">>
    /\ instance # None
    /\ \A i \in OwnSinks("file") \cup OwnSinks("console") : handlers[i].level = ERROR
    /\ Len(out.stdout) = 1 /\ out.stdout[1].text = <<"a", "\n">>
    /\ out.file = <<>>

(***************************************************************************)
(* C9: the console threshold has no effect on captured print output: the   *)
(* same write to an intercepted stream puts the same chunks on the         *)
(* terminal under every console threshold.                                 *)
(* The code violates it: with a console threshold <= INFO the console sink *)
(* prints the record as well (see C1), with a higher one it does not.      *)
(***************************************************************************)
WithConsoleThreshold(hs, cl) ==
    [i \in DOMAIN hs |-> IF hs[i].kind = "console" THEN [hs[i] EXCEPT !.level = cl]
                         ELSE hs[i]]

C9_ConsoleThresholdIrrelevant ==
    (last.op = "write" /\ NonBlank(last.text))
    => \A cl \in FourLevels :
          LET other == ShimWrite(WithConsoleThreshold(handlers, cl), rootLevel,
                                 last.stream, last.text)
          IN /\ other.stdout = out.stdout
             /\ other.stderr = out.stderr

(***************************************************************************)
(* C10: a write of the empty string, or of whitespace and newlines only,   *)
(* to an intercepted stream writes no record to any sink and no line to    *)
(* the terminal, raises nothing and changes no state.                      *)
(***************************************************************************)
C10_BlankWriteIsNoOp ==
    [][(last'.op = "write" /\ Blank(last'.text))
       => /\ last'.err = "none"
          /\ out' = NoOutput
          /\ UNCHANGED progVars]_vars

C10_Witness ==
    /\ last.op = "write" /\ last.text = <<" ", "\n">>
    /\ instance # None
    /\ out = NoOutput

(***************************************************************************)
(* C11: each redirected channel passes its writes through to its own       *)
(* original channel: a write to the intercepted stdout is echoed on the    *)
(* real stdout, a write to the intercepted stderr on the real stderr, and  *)
(* never on the other one.                                                 *)
(* The code violates it: both shims are built without a stream argument,   *)
(* so both echo on sys.__stdout__.                                         *)
(***************************************************************************)
EchoesOn(channel) == {k \in DOMAIN channel : channel[k].h = 0}

C11_OwnChannelPassThrough ==
    (last.op = "write" /\ NonBlank(last.text))
    => IF last.stream = "stdout"
       THEN Cardinality(EchoesOn(out.stdout)) = 1 /\ EchoesOn(out.stderr) = {}
       ELSE Cardinality(EchoesOn(out.stderr)) = 1 /\ EchoesOn(out.stdout) = {}

(***************************************************************************)
(* C12: level strings are matched without regard to case against debug,    *)
(* info, warning, error; with any other level string the initialization    *)
(* succeeds, the file sink's threshold is DEBUG and the console sink's is  *)
(* INFO.                                                                   *)
(* The code violates it: the string is looked up as an attribute of the    *)
(* logging module, so "critical" gives the threshold CRITICAL, and         *)
(* "basic_format" gives a str that setLevel rejects with ValueError.       *)
(***************************************************************************)
\* str.lower() on the level strings, for the specification's matching.
Lower(s) == IF s = "Warning" THEN "warning" ELSE s

SpecThreshold(s, default) ==
    IF Lower(s) \in CanonicalNames THEN Severity(Lower(s)) ELSE default

SinksOf(obj, kind) ==
    {i \in DOMAIN handlers : handlers[i].owner = obj /\ handlers[i].kind = kind}

C12_LevelStringFallback ==
    (/\ last.op = "init"
     /\ objs[last.obj].status # "ignored"
     /\ last.err # "OSError")
    => /\ last.err = "none"
       /\ Cardinality(SinksOf(last.obj, "file")) = 1
       /\ Cardinality(SinksOf(last.obj, "console")) = 1
       /\ \A i \in SinksOf(last.obj, "file") :
             handlers[i].level = SpecThreshold(last.file_level, DEBUG)
       /\ \A i \in SinksOf(last.obj, "console") :
             handlers[i].level = SpecThreshold(last.console_level, INFO)

(***************************************************************************)
(* C13: the lifecycle only goes from UNINITIALIZED to ACTIVE.  Once an     *)
(* initialization has succeeded, no later initialize, facade, shortcut or  *)
(* stream-write operation changes the singleton, detaches one of its two   *)
(* sinks or undoes the redirection of stdout and stderr.                   *)
(***************************************************************************)
Active ==
    /\ instance # None
    /\ Cardinality(OwnSinks("file")) = 1
    /\ Cardinality(OwnSinks("console")) = 1
    /\ sysStdout = Shim
    /\ sysStderr = Shim

C13_ActiveIsTerminal ==
    [][(instance # None)
       => /\ Active
          /\ instance' = instance
          /\ handlers' = handlers
          /\ Active']_vars

\* Active, after a later initialize was ignored and a shortcut has logged.
C13_Witness ==
    /\ Active
    /\ Len(objs) > instance
    /\ objs[Len(objs)].status = "ignored"
    /\ last.op = "shortcut"
    /\ last.err = "none"

(***************************************************************************)
(* C14: once initialized, each shortcut log.debug / log.info / log.warning *)
(* / log.error writes exactly the record that the same-named method of the *)
(* singleton writes for the same message: same severity, same source,     *)
(* same message, same sinks reached.                                       *)
(***************************************************************************)
\* The formatted records the last operation put on the terminal.
ConsoleRecords ==
    {out.stdout[k] : k \in {j \in DOMAIN out.stdout : out.stdout[j].h # 0}}
    \cup {out.stderr[k] : k \in {j \in DOMAIN out.stderr : out.stderr[j].h # 0}}

\* The records the last operation put in log files.
FileRecords == {out.file[k] : k \in DOMAIN out.file}

C14_ShortcutEqualsFacade ==
    (last.op = "shortcut" /\ last.obj # None)
    => /\ last.err = "none"
       /\ out = MethodResult(objs[last.obj], handlers, rootLevel,
                             last.method, last.text).out
       /\ \A r \in FileRecords :
             /\ r.levelname = SeverityName(last.method)
             /\ r.name = objs[last.obj].logger
             /\ r.text = last.text
       /\ \A r \in ConsoleRecords :
             /\ r.levelname = SeverityName(last.method)
             /\ r.name = objs[last.obj].logger
             /\ r.text = last.text \o <<"\n">>

\* log.warning has written a WARNING record to both sinks.
C14_Witness ==
    /\ last.op = "shortcut"
    /\ last.obj # None
    /\ last.method = "warning"
    /\ \E k \in DOMAIN out.file : out.file[k].levelname = "WARNING"
    /\ \E k \in DOMAIN out.stdout : out.stdout[k].levelname = "WARNING"

(***************************************************************************)
(* C15: for every app name, the records of the facade carry the source     *)
(* named after the app, the records of the stream shim carry the shared    *)
(* process-wide source, and the two sources are distinct.                  *)
(* It fails for the app name "root": logging.getLogger("root") is the      *)
(* shared root logger itself.                                              *)
(***************************************************************************)
SharedSource == "root"

RecordNames == {r.name : r \in FileRecords} \cup {r.name : r \in ConsoleRecords}

ByFacade == last.op \in {"facade", "shortcut"} /\ last.err = "none"

C15_SourcesDistinct ==
    /\ ByFacade => \A n \in RecordNames :
                      n = objs[last.obj].app_name /\ n # SharedSource
    /\ last.op = "write" => \A n \in RecordNames : n = SharedSource

(***************************************************************************)
(* C15, amended: the facade's records carry the source named after the     *)
(* app and the shim's records the shared source; the two are distinct for  *)
(* every app name other than "root" and the empty name, and for those two  *)
(* names the facade's source is the shared source.                         *)
(***************************************************************************)
NamesRoot(app_name) == app_name \in {"", "root"}

C15_SourcesDistinctUnlessRoot ==
    /\ ByFacade =>
          /\ objs[last.obj].logger =
                IF NamesRoot(objs[last.obj].app_name) THEN SharedSource
                ELSE objs[last.obj].app_name
          /\ \A n \in RecordNames :
                /\ n = objs[last.obj].logger
                /\ ~NamesRoot(objs[last.obj].app_name) => n # SharedSource
    /\ last.op = "write" => \A n \in RecordNames : n = SharedSource

\* A facade call of an app named "svc" has written a record tagged "svc".
C15_Witness ==
    /\ ByFacade
    /\ objs[last.obj].app_name = "svc"
    /\ "svc" \in RecordNames

(***************************************************************************)
(* C16: publishing the singleton is the last step of an initialization.    *)
(* In every reachable state, the states in the middle of an initialization *)
(* that runs concurrently with shortcut calls included: if the singleton   *)
(* is visible, its file sink and its console sink are attached and stdout  *)
(* and stderr are redirected.  So a concurrent shortcut call either raises *)
(* the not-initialized error or logs through a fully configured logger.    *)
(***************************************************************************)
Configured(obj) ==
    /\ HasLogger(objs[obj])
    /\ SinksOf(obj, "file") # {}
    /\ SinksOf(obj, "console") # {}
    /\ sysStdout = Shim
    /\ sysStderr = Shim

MidInit(t) == pc[t] \in {"attrs", "file", "console", "stdout", "stderr", "publish"}

C16_PublishedMeansConfigured ==
    /\ instance # None => Configured(instance)
    /\ last.op = "shortcut" =>
          \/ last.err = "RuntimeError" /\ last.obj = None /\ out = NoOutput
          \/ last.err = "none" /\ last.obj # None /\ Configured(last.obj)

\* A shortcut call has logged through the singleton while the other thread
\* is still in the middle of its own initialization.
C16_Witness ==
    /\ instance # None
    /\ \E t \in Threads : MidInit(t)
    /\ last.op = "shortcut"
    /\ last.err = "none"
    /\ out.file # <<>>

(***************************************************************************)
(* C17: there is no feedback loop between the console sink and the stream  *)
(* shim.  The console sink's target is bound to the real stdout before the *)
(* streams are replaced, so a record the console sink writes never         *)
(* re-enters the shim's write, and a write of text to an intercepted       *)
(* stream returns having created exactly one record (a blank write, which  *)
(* returns before the logger is called, creates none: C10).                *)
(* The code violates it when two initializations overlap (C6): the second  *)
(* one builds its console sink after the first has replaced sys.stdout, so *)
(* that sink's target is the shim.                                         *)
(***************************************************************************)
ConsoleSinks == {i \in DOMAIN handlers : handlers[i].kind = "console"}

C17_NoFeedbackLoop ==
    /\ \A i \in ConsoleSinks : handlers[i].target = RealStdout
    /\ (last.op = "write" /\ NonBlank(last.text))
       => /\ ~out.reentered
          /\ out.records = 1
          /\ \A i \in DOMAIN handlers :
                Cardinality({k \in DOMAIN out.file : out.file[k].h = i})
                + Cardinality({k \in DOMAIN out.stdout : out.stdout[k].h = i}) <= 1

====
